---- MODULE Spec2Model ----
(***************************************************************************)
(* A model of duckql: the bounded parse cache (src/src/lib/parse-cache.ts),*)
(* the literal/native value converter (src/src/lib/values.ts), the         *)
(* selection tree builder (src/src/lib/selection.ts) and buildContext      *)
(* (src/src/index.ts).                                                     *)
(*                                                                         *)
(* A query text is a sequence of units.  A unit is either one separator    *)
(* character (" " or ",") or a chunk: a piece of GraphQL source on which   *)
(* the replace of parse-cache.ts:16 is the identity (it holds no comma and *)
(* no whitespace other than single inner spaces).  The length of a text is *)
(* the sum of the lengths of its units.                                    *)
(***************************************************************************)
EXTENDS Integers, Sequences, FiniteSets, TLC

VARIABLES
  cache,            \* ParseCache.#cache: entries in insertion order
  usedQueryLength,  \* ParseCache.#usedQueryLength
  queryLength,      \* ParseCache.#queryLength, the budget
  heap,             \* the objects the parser and cloneAst have allocated
  last,             \* what the last call was given and what it returned
  http              \* where every call of httpHandle in flight stands

vars == <<cache, usedQueryLength, queryLength, heap, last, http>>

\* ------------------------------------------------------------------ bounds
MaxUnits == 3        \* longest text given to ParseCache.parse on its own
MaxBudget == 9      \* largest budget a ParseCache is constructed with
MaxAddr == 5         \* heap cells
ServerBudget == 22   \* budget of the server's ParseCache
MaxQueryLength == 98 \* the server's maxQueryLength option
MaxItems == 2        \* longest list and largest map given to the converter
MaxConns == 2        \* calls of httpHandle in flight at once

\* ------------------------------------------------------------------- texts
LineBreak == "\n"
Whitespace == {" ", LineBreak}
Separators == {" ", LineBreak, ","}

RECURSIVE TextLen(_)
TextLen(t) == IF t = <<>> THEN 0 ELSE Len(Head(t)) + TextLen(Tail(t))

\* query.replace(/[\s,]+/g, ' '): every maximal run of separators becomes
\* one space.
RECURSIVE ReplaceRuns(_)
ReplaceRuns(q) ==
  IF q = <<>> THEN <<>>
  ELSE IF Head(q) \in Separators
       THEN IF Len(q) > 1 /\ q[2] \in Separators
            THEN ReplaceRuns(Tail(q))
            ELSE <<" ">> \o ReplaceRuns(Tail(q))
       ELSE <<Head(q)>> \o ReplaceRuns(Tail(q))

\* String.prototype.trim: whitespace is removed from both ends.
RECURSIVE TrimStart(_)
TrimStart(q) ==
  IF q # <<>> /\ Head(q) \in Whitespace THEN TrimStart(Tail(q)) ELSE q

RECURSIVE TrimEnd(_)
TrimEnd(q) ==
  IF q # <<>> /\ q[Len(q)] \in Whitespace
  THEN TrimEnd(SubSeq(q, 1, Len(q) - 1))
  ELSE q

Trim(q) == TrimEnd(TrimStart(q))

\* A normalization that forgets the trim.
NormalizeUntrimmed(query) == ReplaceRuns(query)

NormalizeQuery(query) == Trim(ReplaceRuns(query))

\* The words of a text: its maximal separator-free pieces, in order.
RECURSIVE SplitWords(_, _)
SplitWords(q, word) ==
  IF q = <<>>
  THEN IF word = <<>> THEN <<>> ELSE <<word>>
  ELSE IF Head(q) \in Separators
       THEN (IF word = <<>> THEN <<>> ELSE <<word>>) \o SplitWords(Tail(q), <<>>)
       ELSE SplitWords(Tail(q), Append(word, Head(q)))

Words(q) == SplitWords(q, <<>>)

\* ------------------------------------------------------- syntax tree nodes
\* The node shapes of the graphql package, as the code below reads them.
Undefined == [kind |-> "Undefined"]
NameNode(v) == [kind |-> "Name", value |-> v]
NullValue == [kind |-> "NullValue"]
Variable(n) == [kind |-> "Variable", name |-> NameNode(n)]
IntValue(digits) == [kind |-> "IntValue", value |-> digits]
FloatValue(digits) == [kind |-> "FloatValue", value |-> digits]
StringValue(s) == [kind |-> "StringValue", value |-> s]
BooleanValue(b) == [kind |-> "BooleanValue", value |-> b]
EnumValue(s) == [kind |-> "EnumValue", value |-> s]
ListValue(vs) == [kind |-> "ListValue", values |-> vs]
ObjectField(n, v) == [kind |-> "ObjectField", name |-> NameNode(n), value |-> v]
ObjectValue(fs) == [kind |-> "ObjectValue", fields |-> fs]
Argument(n, v) == [kind |-> "Argument", name |-> NameNode(n), value |-> v]
Directive(n, args) == [kind |-> "Directive", name |-> NameNode(n), arguments |-> args]
SelectionSetNode(sels) == [kind |-> "SelectionSet", selections |-> sels]
FieldNode(alias, n, args, dirs, ss) ==
  [kind |-> "Field", alias |-> alias, name |-> NameNode(n), arguments |-> args,
   directives |-> dirs, selectionSet |-> ss]
Leaf(n) == FieldNode(Undefined, n, <<>>, <<>>, Undefined)
FragmentSpread(n) == [kind |-> "FragmentSpread", name |-> NameNode(n), directives |-> <<>>]
InlineFragment(ss) ==
  [kind |-> "InlineFragment", typeCondition |-> Undefined, directives |-> <<>>,
   selectionSet |-> ss]
VariableDefinition(n, def) ==
  [kind |-> "VariableDefinition", variable |-> Variable(n), defaultValue |-> def]
OperationDefinition(op, name, vds, ss) ==
  [kind |-> "OperationDefinition", operation |-> op, name |-> name,
   variableDefinitions |-> vds, directives |-> <<>>, selectionSet |-> ss]
FragmentDefinition(n, ss) ==
  [kind |-> "FragmentDefinition", name |-> NameNode(n), selectionSet |-> ss]
DocumentNode(defs) == [kind |-> "Document", definitions |-> defs]

\* ------------------------------------------------------ the external parser
\* The chunks the model knows, each with the definition the graphql parser
\* reads from it.  Any other chunk is a syntax error.
ChunkSmall == "{_}"
ChunkShort == "query($x:Int){f(n:$x)}"
ChunkA == "query A($x:Int=1 $y:Int=2 $z:Int=3){f(n:$x b:$y s:$z)}"
ChunkB == "mutation B($x:Int){f(n:[{k:$x}]){g{h}}k{j}}"
ChunkSpread == "query F{a...P}"
ChunkInline == "{a{...{b}}}"
ChunkFragDef == "fragment P on T{a}"
ChunkUndeclared == "{f(n:$u)}"
ChunkDirective == "query D($x:Boolean=true){f@include(if:$x)}"
ChunkProto == "query P($__proto__:Int){f(n:$__proto__)}"
ChunkCtor == "query C($constructor:Int=1){f(n:$constructor)}"
ChunkSpreadFirst == "{...P f(n:$u)}"
ChunkSpreadLast == "{f(n:$u)...P}"
ChunkAlias == "{a:f(n:1) b:f(n:2)}"
ChunkInherited == "{f(n:$__proto__)}"
ChunkBad == "{"

ChunkDefinition(c) ==
  CASE c = ChunkSmall ->
         OperationDefinition("query", Undefined, <<>>, SelectionSetNode(<<Leaf("_")>>))
    [] c = ChunkShort ->
         OperationDefinition("query", Undefined,
           <<VariableDefinition("x", Undefined)>>,
           SelectionSetNode(<<
             FieldNode(Undefined, "f", <<Argument("n", Variable("x"))>>, <<>>, Undefined)>>))
    [] c = ChunkA ->
         OperationDefinition("query", NameNode("A"),
           <<VariableDefinition("x", IntValue(<<"1">>)),
             VariableDefinition("y", IntValue(<<"2">>)),
             VariableDefinition("z", IntValue(<<"3">>))>>,
           SelectionSetNode(<<
             FieldNode(Undefined, "f",
               <<Argument("n", Variable("x")), Argument("b", Variable("y")),
                 Argument("s", Variable("z"))>>,
               <<>>, Undefined)>>))
    [] c = ChunkB ->
         OperationDefinition("mutation", NameNode("B"),
           <<VariableDefinition("x", Undefined)>>,
           SelectionSetNode(<<
             FieldNode(Undefined, "f",
               <<Argument("n", ListValue(<<ObjectValue(<<ObjectField("k", Variable("x"))>>)>>))>>,
               <<>>,
               SelectionSetNode(<<
                 FieldNode(Undefined, "g", <<>>, <<>>, SelectionSetNode(<<Leaf("h")>>))>>)),
             FieldNode(Undefined, "k", <<>>, <<>>, SelectionSetNode(<<Leaf("j")>>))>>))
    [] c = ChunkSpread ->
         OperationDefinition("query", NameNode("F"), <<>>,
           SelectionSetNode(<<Leaf("a"), FragmentSpread("P")>>))
    [] c = ChunkInline ->
         OperationDefinition("query", Undefined, <<>>,
           SelectionSetNode(<<
             FieldNode(Undefined, "a", <<>>, <<>>,
               SelectionSetNode(<<InlineFragment(SelectionSetNode(<<Leaf("b")>>))>>))>>))
    [] c = ChunkFragDef ->
         FragmentDefinition("P", SelectionSetNode(<<Leaf("a")>>))
    [] c = ChunkUndeclared ->
         OperationDefinition("query", Undefined, <<>>,
           SelectionSetNode(<<
             FieldNode(Undefined, "f", <<Argument("n", Variable("u"))>>, <<>>, Undefined)>>))
    [] c = ChunkDirective ->
         OperationDefinition("query", NameNode("D"),
           <<VariableDefinition("x", BooleanValue(TRUE))>>,
           SelectionSetNode(<<
             FieldNode(Undefined, "f", <<>>,
               <<Directive("include", <<Argument("if", Variable("x"))>>)>>, Undefined)>>))
    [] c = ChunkProto ->
         OperationDefinition("query", NameNode("P"),
           <<VariableDefinition("__proto__", Undefined)>>,
           SelectionSetNode(<<
             FieldNode(Undefined, "f", <<Argument("n", Variable("__proto__"))>>, <<>>,
               Undefined)>>))
    [] c = ChunkCtor ->
         OperationDefinition("query", NameNode("C"),
           <<VariableDefinition("constructor", IntValue(<<"1">>))>>,
           SelectionSetNode(<<
             FieldNode(Undefined, "f", <<Argument("n", Variable("constructor"))>>, <<>>,
               Undefined)>>))
    [] c = ChunkSpreadFirst ->
         OperationDefinition("query", Undefined, <<>>,
           SelectionSetNode(<<
             FragmentSpread("P"),
             FieldNode(Undefined, "f", <<Argument("n", Variable("u"))>>, <<>>, Undefined)>>))
    [] c = ChunkSpreadLast ->
         OperationDefinition("query", Undefined, <<>>,
           SelectionSetNode(<<
             FieldNode(Undefined, "f", <<Argument("n", Variable("u"))>>, <<>>, Undefined),
             FragmentSpread("P")>>))
    [] c = ChunkAlias ->
         OperationDefinition("query", Undefined, <<>>,
           SelectionSetNode(<<
             FieldNode(NameNode("a"), "f", <<Argument("n", IntValue(<<"1">>))>>, <<>>, Undefined),
             FieldNode(NameNode("b"), "f", <<Argument("n", IntValue(<<"2">>))>>, <<>>, Undefined)>>))
    [] c = ChunkInherited ->
         OperationDefinition("query", Undefined, <<>>,
           SelectionSetNode(<<
             FieldNode(Undefined, "f", <<Argument("n", Variable("__proto__"))>>, <<>>,
                       Undefined)>>))
    [] OTHER -> Undefined

\* A comment runs from "#" to the end of its line.
ChunkComment == "#c"

\* The two ends of an operation whose only argument is a string literal; the
\* units between them are the middle of the literal.
StringOpen == "{f(s:\"a"
StringClose == "b\")}"

\* What is left of a text after the line its first line break ends.
RECURSIVE AfterLine(_)
AfterLine(q) ==
  IF q = <<>> THEN <<>>
  ELSE IF Head(q) = LineBreak THEN Tail(q) ELSE AfterLine(Tail(q))

\* The number of units a string literal goes on before it is closed; 0 when
\* the line ends first, which no string literal may span.
RECURSIVE StringEnd(_)
StringEnd(q) ==
  IF q = <<>> \/ Head(q) = LineBreak THEN 0
  ELSE IF Head(q) = StringClose THEN 1
  ELSE IF StringEnd(Tail(q)) = 0 THEN 0 ELSE 1 + StringEnd(Tail(q))

RECURSIVE Concat(_)
Concat(q) == IF q = <<>> THEN "" ELSE Head(q) \o Concat(Tail(q))

\* The operation of a string literal with the units inner in its middle.
StringDefinition(inner) ==
  OperationDefinition("query", Undefined, <<>>,
    SelectionSetNode(<<
      FieldNode(Undefined, "f", <<Argument("s", StringValue("a" \o Concat(inner) \o "b"))>>,
                <<>>, Undefined)>>))

\* graphql's parse(normalizedQuery, { noLocation: true }): the definitions of
\* the chunks in order, comments passed over and string literals read to
\* their end; a syntax error on the empty text, on a chunk that is no
\* definition and on a string literal that is not closed on its line.
RECURSIVE ParseDefinitions(_)
ParseDefinitions(norm) ==
  IF norm = <<>> THEN <<>>
  ELSE IF Head(norm) \in Separators THEN ParseDefinitions(Tail(norm))
  ELSE IF Head(norm) = ChunkComment THEN ParseDefinitions(AfterLine(Tail(norm)))
  ELSE IF Head(norm) = StringOpen
  THEN IF StringEnd(Tail(norm)) = 0 THEN <<Undefined>>
       ELSE <<StringDefinition(SubSeq(norm, 2, StringEnd(Tail(norm))))>>
              \o ParseDefinitions(SubSeq(norm, StringEnd(Tail(norm)) + 2, Len(norm)))
  ELSE <<ChunkDefinition(Head(norm))>> \o ParseDefinitions(Tail(norm))

GraphqlParse(norm) ==
  LET defs == ParseDefinitions(norm) IN
  IF defs = <<>> \/ \E i \in 1..Len(defs) : defs[i] = Undefined
  THEN [ok |-> FALSE, err |-> [kind |-> "SyntaxError", class |-> "GraphQLError"]]
  ELSE [ok |-> TRUE, node |-> DocumentNode(defs)]

\* ---------------------------------------------------------------- the heap
\* Objects have identity: a Document the parser returns and a selection set
\* cloneAst returns each live in a cell of their own.  A cell nothing refers
\* to any more is free again.
Addr == 1..MaxAddr
Free == [kind |-> "Free"]
NoError == [kind |-> "None", class |-> "None"]

\* A call of httpHandle is idle (not running), reading (suspended at the
\* await of the request body) or awaiting (suspended at await resultPromises
\* with the array the map returned).
Conns == 1..MaxConns
Call(pc, many, results) == [pc |-> pc, many |-> many, results |-> results]
Idle == Call("idle", FALSE, <<>>)
NoCalls == [c \in Conns |-> Idle]

Alloc(h) == CHOOSE a \in Addr : h[a] = Free /\ \A b \in Addr : b < a => h[b] # Free

Collect(h, roots) == [a \in Addr |-> IF a \in roots THEN h[a] ELSE Free]

\* -------------------------------------------------------------- ParseCache
\* this.#cache.get(normalizedQuery): the position of the entry, 0 for none.
CacheIndex(c, norm) ==
  IF \E i \in 1..Len(c) : c[i].key = norm
  THEN CHOOSE i \in 1..Len(c) : c[i].key = norm
  ELSE 0

\* An eviction that stops after one entry.
EvictOne(c, used, limit, evicted) ==
  IF used > limit /\ c # <<>>
  THEN [ok |-> TRUE, cache |-> Tail(c), used |-> used - TextLen(Head(c).key),
        evicted |-> Append(evicted, Head(c).key)]
  ELSE [ok |-> TRUE, cache |-> c, used |-> used, evicted |-> evicted]

\* An eviction that deletes the newest entries first, sparing the one just
\* inserted while an older one is left.
RECURSIVE EvictNewest(_, _, _, _)
EvictNewest(c, used, limit, evicted) ==
  IF used > limit /\ c # <<>>
  THEN LET i == IF Len(c) > 1 THEN Len(c) - 1 ELSE 1 IN
       EvictNewest(SubSeq(c, 1, i - 1) \o SubSeq(c, i + 1, Len(c)),
                   used - TextLen(c[i].key), limit, Append(evicted, c[i].key))
  ELSE [ok |-> TRUE, cache |-> c, used |-> used, evicted |-> evicted]

\* An eviction that deletes the oldest entry and forgets to take its length
\* off the total.
EvictUncounted(c, used, limit, evicted) ==
  IF used > limit /\ c # <<>>
  THEN [ok |-> TRUE, cache |-> Tail(c), used |-> used,
        evicted |-> Append(evicted, Head(c).key)]
  ELSE [ok |-> TRUE, cache |-> c, used |-> used, evicted |-> evicted]

\* A cache that leaves the eviction to a later turn.
EvictLater(c, used, limit, evicted) ==
  [ok |-> TRUE, cache |-> c, used |-> used, evicted |-> evicted]

\* The while loop of parse: the first key of the Map is deleted while the
\* total is over the budget.
RECURSIVE Evict(_, _, _, _)
Evict(c, used, limit, evicted) ==
  IF used > limit
  THEN IF c = <<>>
       THEN [ok |-> FALSE, cache |-> c, used |-> used, evicted |-> evicted]
       ELSE Evict(Tail(c), used - TextLen(Head(c).key), limit,
                  Append(evicted, Head(c).key))
  ELSE [ok |-> TRUE, cache |-> c, used |-> used, evicted |-> evicted]

\* ParseCache.parse on the cache c with total used, budget limit and heap h.
\* A cache that stores the key before it knows that the parser accepts the
\* text, and so keeps the key of a text the parser throws on.
KeyBeforeParse(query, c, used, limit, h) ==
  LET normalizedQuery == NormalizeQuery(query)
      i == CacheIndex(c, normalizedQuery)
      node == GraphqlParse(normalizedQuery)
      a == IF node.ok THEN Alloc(h) ELSE 0
      e == Evict(Append(c, [key |-> normalizedQuery, doc |-> a]),
                 used + TextLen(normalizedQuery), limit, <<>>)
  IN
  IF i # 0
  THEN [ok |-> c[i].doc # 0, err |-> NoError, doc |-> c[i].doc, norm |-> normalizedQuery,
        hit |-> TRUE, parsed |-> FALSE, evicted |-> <<>>,
        cache |-> c, used |-> used, heap |-> h]
  ELSE [ok |-> node.ok /\ e.ok,
        err |-> IF ~node.ok THEN node.err
                ELSE IF e.ok THEN NoError ELSE [kind |-> "TypeError", class |-> "TypeError"],
        doc |-> IF node.ok /\ e.ok THEN a ELSE 0, norm |-> normalizedQuery,
        hit |-> FALSE, parsed |-> TRUE, evicted |-> e.evicted,
        cache |-> e.cache, used |-> e.used,
        heap |-> IF node.ok THEN [h EXCEPT ![a] = node.node] ELSE h]

ParseCacheParse(query, c, used, limit, h) ==
  LET normalizedQuery == NormalizeQuery(query)
      i == CacheIndex(c, normalizedQuery)
  IN
  IF i # 0
  THEN [ok |-> TRUE, err |-> NoError, doc |-> c[i].doc, norm |-> normalizedQuery,
        hit |-> TRUE, parsed |-> FALSE, evicted |-> <<>>,
        cache |-> c, used |-> used, heap |-> h]
  ELSE
    LET node == GraphqlParse(normalizedQuery) IN
    IF ~node.ok
    THEN [ok |-> FALSE, err |-> node.err, doc |-> 0, norm |-> normalizedQuery,
          hit |-> FALSE, parsed |-> TRUE, evicted |-> <<>>,
          cache |-> c, used |-> used, heap |-> h]
    ELSE
      LET a == Alloc(h)
          e == Evict(Append(c, [key |-> normalizedQuery, doc |-> a]),
                     used + TextLen(normalizedQuery), limit, <<>>)
      IN [ok |-> e.ok,
          err |-> IF e.ok THEN NoError ELSE [kind |-> "TypeError", class |-> "TypeError"],
          doc |-> IF e.ok THEN a ELSE 0, norm |-> normalizedQuery,
          hit |-> FALSE, parsed |-> TRUE, evicted |-> e.evicted,
          cache |-> e.cache, used |-> e.used, heap |-> [h EXCEPT ![a] = node.node]]

CacheDocs(c) == {c[i].doc : i \in 1..Len(c)}

\* ------------------------------------------------- the cache on its own
CacheUnits == {" ", ",", ChunkSmall}

RECURSIVE TextsUpTo(_)
TextsUpTo(n) ==
  IF n = 0 THEN {<<>>}
  ELSE LET shorter == TextsUpTo(n - 1) IN
       shorter \cup {Append(t, u) : t \in {s \in shorter : Len(s) = n - 1}, u \in CacheUnits}

\* Texts the parser throws on that are not empty, in and out of normal form.
BadTexts == {<<ChunkBad>>, <<" ", ChunkBad, ",">>}

CacheTexts == TextsUpTo(MaxUnits) \cup BadTexts

InitCache ==
  /\ cache = <<>>
  /\ usedQueryLength = 0
  /\ queryLength \in 0..MaxBudget
  /\ heap = [a \in Addr |-> Free]
  /\ last = [op |-> "new"]
  /\ http = NoCalls

\* x.parse(query) on the cache alone.  last keeps the words of the text and
\* whether the text was given in normal form (plain), and by how many entries
\* the cache grew (added); twin says that the call
\* before returned a Document for a text of the same words and that its entry
\* was still cached when this call began; retry says that the call before
\* threw on a text of the same normal form.
Parse(query) ==
  LET r == ParseCacheParse(query, cache, usedQueryLength, queryLength, heap)
      twin == /\ last.op = "parse" /\ last.ok
              /\ last.words = Words(query)
              /\ last.doc \in CacheDocs(cache)
  IN
  /\ cache' = r.cache
  /\ usedQueryLength' = r.used
  /\ last' = [op |-> "parse", words |-> Words(query), plain |-> (query = r.norm),
              norm |-> r.norm, ok |-> r.ok,
              err |-> r.err, doc |-> r.doc, hit |-> r.hit, parsed |-> r.parsed,
              evicted |-> r.evicted, added |-> Len(r.cache) - Len(cache),
              twin |-> twin, twinDoc |-> IF twin THEN last.doc ELSE 0,
              twinPlain |-> IF twin THEN last.plain ELSE FALSE,
              retry |-> last.op = "parse" /\ ~last.ok /\ last.norm = r.norm]
  /\ heap' = Collect(r.heap, CacheDocs(r.cache) \cup (IF r.ok THEN {r.doc} ELSE {}))
  /\ UNCHANGED <<queryLength, http>>

\* x.clear()
Clear ==
  /\ cache' = <<>>
  /\ usedQueryLength' = 0
  /\ last' = [op |-> "clear"]
  /\ heap' = [a \in Addr |-> Free]
  /\ UNCHANGED <<queryLength, http>>

\* x.count
Count(c) == Len(c)

\* x.use, the quotient as numerator and denominator
Use(used, limit) == [num |-> used, den |-> limit]

NextCache == (\E query \in CacheTexts : Parse(query)) \/ Clear

SpecCache == InitCache /\ [][NextCache]_vars

\* ------------------------------------------------------------ native values
\* JavaScript values.  A number is (v + frac/10) * 10^exp, with exp = 0 unless
\* the integer is beyond 32 bits; a bigint is v * 10^exp.  An object keeps its own
\* enumerable properties in insertion order and its prototype; builtins marks
\* Object.prototype itself, whose properties are not enumerable.
UndefinedV == [t |-> "undefined"]
NullV == [t |-> "null"]
Bool(b) == [t |-> "boolean", b |-> b]
Number(v) == [t |-> "number", v |-> v, frac |-> 0, exp |-> 0]
Float(v, frac) == [t |-> "number", v |-> v, frac |-> frac, exp |-> 0]
Big(v, exp) == [t |-> "number", v |-> v, frac |-> 0, exp |-> exp]
BigInt(v, exp) == [t |-> "bigint", v |-> v, exp |-> exp]
String(s) == [t |-> "string", s |-> s]
Symbol(d) == [t |-> "symbol", description |-> d]
Array(items) == [t |-> "array", items |-> items]
Function(name) == [t |-> "function", name |-> name]
ObjectPrototype == [t |-> "object", own |-> <<>>, proto |-> NullV, builtins |-> TRUE]
Object(own) == [t |-> "object", own |-> own, proto |-> ObjectPrototype, builtins |-> FALSE]
Property(k, v) == [key |-> k, value |-> v]

\* The function-valued properties every object inherits from Object.prototype.
ObjectPrototypeMethods ==
  {"constructor", "hasOwnProperty", "isPrototypeOf", "propertyIsEnumerable",
   "toLocaleString", "toString", "valueOf"}

Primitive(v) ==
  v.t \in {"undefined", "null", "boolean", "number", "bigint", "string", "symbol"}

OwnIndex(o, k) ==
  IF o.t = "object" /\ \E i \in 1..Len(o.own) : o.own[i].key = k
  THEN CHOOSE i \in 1..Len(o.own) : o.own[i].key = k
  ELSE 0

\* Whether the prototype chain of o ends in Object.prototype.
RECURSIVE InheritsBuiltins(_)
InheritsBuiltins(o) ==
  IF Primitive(o) THEN FALSE
  ELSE IF o.t # "object" THEN TRUE
  ELSE o.builtins \/ InheritsBuiltins(o.proto)

\* o[k] read along the prototype chain, for the receiver recv: an own property
\* first; on Object.prototype the accessor __proto__ gives the receiver's
\* prototype and the inherited methods are functions.
RECURSIVE ChainGet(_, _, _)
ChainGet(o, k, recv) ==
  IF Primitive(o) THEN UndefinedV
  ELSE IF o.t # "object" THEN ChainGet(ObjectPrototype, k, recv)
  ELSE IF OwnIndex(o, k) # 0 THEN o.own[OwnIndex(o, k)].value
  ELSE IF o.builtins
       THEN IF k = "__proto__" THEN recv.proto
            ELSE IF k \in ObjectPrototypeMethods THEN Function(k)
            ELSE UndefinedV
       ELSE ChainGet(o.proto, k, recv)

JsGet(o, k) == ChainGet(o, k, o)

\* CreateDataProperty: an own property is replaced in place or appended.
DefineOwn(o, k, v) ==
  IF OwnIndex(o, k) # 0
  THEN [o EXCEPT !.own[OwnIndex(o, k)].value = v]
  ELSE [o EXCEPT !.own = Append(@, Property(k, v))]

\* o[k] = v on an ordinary object: the inherited setter __proto__ changes the
\* prototype (to an object or null, otherwise nothing happens); any other key
\* becomes an own property.
JsSet(o, k, v) ==
  IF OwnIndex(o, k) = 0 /\ k = "__proto__" /\ InheritsBuiltins(o)
  THEN IF v.t = "null" \/ ~Primitive(v) THEN [o EXCEPT !.proto = v] ELSE o
  ELSE DefineOwn(o, k, v)

\* Object.fromEntries(entries)
RECURSIVE FromEntries(_, _)
FromEntries(entries, o) ==
  IF entries = <<>> THEN o
  ELSE FromEntries(Tail(entries), DefineOwn(o, Head(entries).key, Head(entries).value))

\* ------------------------------------------------------ numbers and digits
Digits == <<"0", "1", "2", "3", "4", "5", "6", "7", "8", "9">>

DigitValue(c) == (CHOOSE i \in 1..10 : Digits[i] = c) - 1

IsDigit(c) == \E i \in 1..10 : Digits[i] = c

MaxInt32 == 2147483647

\* The value of the longest prefix of digits of s, after acc.  Once the value
\* would pass 32 bits the digits left are counted in exp; they are zeros in
\* every number of the model.
RECURSIVE ParseDigits(_, _)
ParseDigits(s, acc) ==
  IF s = <<>> \/ ~IsDigit(Head(s)) THEN acc
  ELSE IF acc.exp > 0 \/ acc.v > (MaxInt32 - DigitValue(Head(s))) \div 10
  THEN ParseDigits(Tail(s), [acc EXCEPT !.exp = @ + 1])
  ELSE ParseDigits(Tail(s), [acc EXCEPT !.v = @ * 10 + DigitValue(Head(s))])

\* parseInt(value) of an Int token: an optional sign and digits.
ParseInt(s) ==
  IF s # <<>> /\ Head(s) = "-"
  THEN LET n == ParseDigits(Tail(s), [v |-> 0, exp |-> 0]) IN Big(0 - n.v, n.exp)
  ELSE LET n == ParseDigits(s, [v |-> 0, exp |-> 0]) IN Big(n.v, n.exp)

RECURSIVE AfterPoint(_)
AfterPoint(s) ==
  IF s = <<>> THEN <<>>
  ELSE IF Head(s) = "." THEN Tail(s) ELSE AfterPoint(Tail(s))

\* parseFloat(value) of a Float token with at most one decimal.
ParseFloat(s) ==
  LET frac == AfterPoint(s) IN
  [ParseInt(s) EXCEPT !.frac = IF frac = <<>> THEN 0 ELSE DigitValue(Head(frac))]

RECURSIVE NatToDigits(_)
NatToDigits(n) ==
  IF n < 10 THEN <<Digits[n + 1]>>
  ELSE Append(NatToDigits(n \div 10), Digits[(n % 10) + 1])

IntToDigits(n) == IF n < 0 THEN <<"-">> \o NatToDigits(0 - n) ELSE NatToDigits(n)

\* value.toString() of a number or a bigint
NumberToString(n) ==
  IF n.t = "number" /\ n.frac # 0
  THEN IntToDigits(n.v) \o <<".", Digits[n.frac + 1]>>
  ELSE IntToDigits(n.v) \o [i \in 1..n.exp |-> "0"]

\* An integer as two 16-bit halves of its 32-bit two's complement, so that
\* the arithmetic modulo 2^32 stays within the integers of the checker.
Halves(v) == [hi |-> (v \div 65536) % 65536, lo |-> v % 65536]

RECURSIVE TimesTen(_, _)
TimesTen(h, exp) ==
  IF exp = 0 THEN h
  ELSE TimesTen([hi |-> (h.hi * 10 + (h.lo * 10) \div 65536) % 65536,
                 lo |-> (h.lo * 10) % 65536], exp - 1)

Signed(h) ==
  IF h.hi >= 32768 THEN (h.hi - 65536) * 65536 + h.lo ELSE h.hi * 65536 + h.lo

\* ~~value: the fraction is dropped and the integer is taken modulo 2^32 as a
\* signed 32-bit integer.
ToInt32(n) == Number(Signed(TimesTen(Halves(n.v), n.exp)))

\* ---------------------------------------------------------- value converter
\* Errors carry the class that instanceof sees.
GraphQLQueryError(kind) == [kind |-> kind, class |-> "GraphQLQueryError"]
PlainError(kind) == [kind |-> kind, class |-> "Error"]

Thrown(e) == [ok |-> FALSE, err |-> e]

\* convertVarToNode(value): the literal node of a native value.
RECURSIVE ConvertVarToNode(_)
RECURSIVE ConvertVarsToNodes(_)
RECURSIVE ConvertEntriesToFields(_)
ConvertVarToNode(value) ==
  CASE value.t = "null" -> [ok |-> TRUE, node |-> NullValue]
    [] value.t = "array" ->
         LET r == ConvertVarsToNodes(value.items) IN
         IF r.ok THEN [ok |-> TRUE, node |-> ListValue(r.nodes)] ELSE r
    [] value.t = "symbol" ->
         IF value.description = ""
         THEN Thrown(GraphQLQueryError("UnconvertibleValue"))
         ELSE [ok |-> TRUE, node |-> EnumValue(value.description)]
    [] value.t = "object" ->
         LET r == ConvertEntriesToFields(value.own) IN
         IF r.ok THEN [ok |-> TRUE, node |-> ObjectValue(r.nodes)] ELSE r
    [] value.t = "boolean" -> [ok |-> TRUE, node |-> BooleanValue(value.b)]
    [] value.t = "number" ->
         IF ToInt32(value) # value
         THEN [ok |-> TRUE, node |-> FloatValue(NumberToString(value))]
         ELSE [ok |-> TRUE, node |-> IntValue(NumberToString(value))]
    [] value.t = "bigint" -> [ok |-> TRUE, node |-> IntValue(NumberToString(value))]
    [] value.t = "string" -> [ok |-> TRUE, node |-> StringValue(value.s)]
    [] OTHER -> Thrown(GraphQLQueryError("UnconvertibleValue"))

ConvertVarsToNodes(items) ==
  IF items = <<>> THEN [ok |-> TRUE, nodes |-> <<>>]
  ELSE LET r == ConvertVarToNode(Head(items)) IN
       IF ~r.ok THEN r
       ELSE LET rest == ConvertVarsToNodes(Tail(items)) IN
            IF ~rest.ok THEN rest
            ELSE [ok |-> TRUE, nodes |-> <<r.node>> \o rest.nodes]

ConvertEntriesToFields(own) ==
  IF own = <<>> THEN [ok |-> TRUE, nodes |-> <<>>]
  ELSE LET r == ConvertVarToNode(Head(own).value) IN
       IF ~r.ok THEN r
       ELSE LET rest == ConvertEntriesToFields(Tail(own)) IN
            IF ~rest.ok THEN rest
            ELSE [ok |-> TRUE,
                  nodes |-> <<ObjectField(Head(own).key, r.node)>> \o rest.nodes]

\* convertNodeToVar(arg, variables): the native value of a value node.
RECURSIVE ConvertNodeToVar(_, _)
RECURSIVE ConvertNodesToVars(_, _)
RECURSIVE ConvertFieldsToEntries(_, _)
ConvertNodeToVar(arg, variables) ==
  CASE arg.kind = "NullValue" -> [ok |-> TRUE, value |-> NullV]
    [] arg.kind = "Variable" ->
         LET out == JsGet(variables, arg.name.value) IN
         IF out = UndefinedV
         THEN Thrown(GraphQLQueryError("UnresolvedVariable"))
         ELSE LET check == ConvertVarToNode(out) IN
              IF check.ok THEN [ok |-> TRUE, value |-> out] ELSE check
    [] arg.kind = "ObjectValue" ->
         LET r == ConvertFieldsToEntries(arg.fields, variables) IN
         IF r.ok THEN [ok |-> TRUE, value |-> FromEntries(r.values, Object(<<>>))] ELSE r
    [] arg.kind = "ListValue" ->
         LET r == ConvertNodesToVars(arg.values, variables) IN
         IF r.ok THEN [ok |-> TRUE, value |-> Array(r.values)] ELSE r
    [] arg.kind = "EnumValue" -> [ok |-> TRUE, value |-> Symbol(arg.value)]
    [] arg.kind = "IntValue" -> [ok |-> TRUE, value |-> ParseInt(arg.value)]
    [] arg.kind = "FloatValue" -> [ok |-> TRUE, value |-> ParseFloat(arg.value)]
    [] arg.kind = "StringValue" -> [ok |-> TRUE, value |-> String(arg.value)]
    [] arg.kind = "BooleanValue" -> [ok |-> TRUE, value |-> Bool(arg.value)]
    [] OTHER -> Thrown(PlainError("UnsupportedType"))

ConvertNodesToVars(nodes, variables) ==
  IF nodes = <<>> THEN [ok |-> TRUE, values |-> <<>>]
  ELSE LET r == ConvertNodeToVar(Head(nodes), variables) IN
       IF ~r.ok THEN r
       ELSE LET rest == ConvertNodesToVars(Tail(nodes), variables) IN
            IF ~rest.ok THEN rest
            ELSE [ok |-> TRUE, values |-> <<r.value>> \o rest.values]

ConvertFieldsToEntries(fields, variables) ==
  IF fields = <<>> THEN [ok |-> TRUE, values |-> <<>>]
  ELSE LET r == ConvertNodeToVar(Head(fields).value, variables) IN
       IF ~r.ok THEN r
       ELSE LET rest == ConvertFieldsToEntries(Tail(fields), variables) IN
            IF ~rest.ok THEN rest
            ELSE [ok |-> TRUE,
                  values |-> <<Property(Head(fields).name.value, r.value)>> \o rest.values]

\* ------------------------------------------------------- SelectionContext
\* A selection set is referred to by the cell it lives in: def = 0 for a cell
\* that holds a selection set of its own, def = i for the selection set of
\* definition i of the Document in the cell.
SetRef(cell, def) == [cell |-> cell, def |-> def]

ReadSelectionSet(h, ref) ==
  IF ref.def = 0 THEN h[ref.cell] ELSE h[ref.cell].definitions[ref.def].selectionSet

WriteSelectionSet(h, ref, ss) ==
  IF ref.def = 0 THEN [h EXCEPT ![ref.cell] = ss]
  ELSE [h EXCEPT ![ref.cell].definitions[ref.def].selectionSet = ss]

\* A clone that is the node it was given.
ShareAst(h, ref) == [heap |-> h, ref |-> ref]

\* cloneAst(selectionSet): a deep copy in a fresh cell.
CloneAst(h, ref) ==
  LET a == Alloc(h) IN
  [heap |-> [h EXCEPT ![a] = ReadSelectionSet(h, ref)], ref |-> SetRef(a, 0)]

\* A field node inside a selection set: the indices that lead to it.
NodeRef(root, path) == [root |-> root, path |-> path]

\* The virtual field build() puts around the clone.
VirtualField(ref) == [kind |-> "Field", name |-> NameNode(""), selectionSet |-> ref]

\* { node, args?, sub? }: an absent property is undefined.
SelectionNode(node, args, sub) == [t |-> "node", node |-> node, args |-> args, sub |-> sub]

\* The depth just entered, whatever was seen before.
Latest(a, b) == a

Max(a, b) == IF a > b THEN a ELSE b

\* const x = ...: the value is computed once and named.
With(x, F(_)) == F(x)

\* The loop over sel.arguments: each value becomes native, is stored under the
\* argument's name and is written back as a literal.
RECURSIVE BuildArguments(_, _, _, _)
BuildArguments(arguments, i, variables, args) ==
  IF i > Len(arguments)
  THEN [ok |-> TRUE, err |-> NoError, arguments |-> arguments, args |-> args]
  ELSE
    With(ConvertNodeToVar(arguments[i].value, variables), LAMBDA jsArg :
      IF ~jsArg.ok
      THEN [ok |-> FALSE, err |-> jsArg.err, arguments |-> arguments, args |-> args]
      ELSE
        With(ConvertVarToNode(jsArg.value), LAMBDA node :
          IF ~node.ok
          THEN [ok |-> FALSE, err |-> node.err, arguments |-> arguments, args |-> args]
          ELSE BuildArguments([arguments EXCEPT ![i].value = node.node], i + 1, variables,
                              JsSet(args, arguments[i].name.value, jsArg.value))))

\* #internalBuild(node, depth) on the selection set ss of the node at path;
\* the result has the rewritten selection set, also when the walk throws.
RECURSIVE InternalBuild(_, _, _, _, _, _)
RECURSIVE BuildSelections(_, _, _, _, _, _, _, _)
InternalBuild(ss, depth, variables, maxDepth, root, path) ==
  IF ss = Undefined
  THEN [ok |-> TRUE, err |-> NoError, ss |-> ss, sub |-> UndefinedV, maxDepth |-> maxDepth]
  ELSE
    With(BuildSelections(ss.selections, 1, depth + 1, variables,
                         Max(depth + 1, maxDepth), root, path, Object(<<>>)),
         LAMBDA r :
           [ok |-> r.ok, err |-> r.err, ss |-> [ss EXCEPT !.selections = r.selections],
            sub |-> r.set, maxDepth |-> r.maxDepth])

\* A loop that visits no selection and refuses none.
VisitNothing(selections, i, depth, variables, maxDepth, root, path, set) ==
  [ok |-> TRUE, err |-> NoError, selections |-> selections, set |-> set,
   maxDepth |-> maxDepth]

\* The loop over the selections, from selection i on.
BuildSelections(selections, i, depth, variables, maxDepth, root, path, set) ==
  IF i > Len(selections)
  THEN [ok |-> TRUE, err |-> NoError, selections |-> selections, set |-> set,
        maxDepth |-> maxDepth]
  ELSE IF selections[i].kind # "Field"
  THEN [ok |-> FALSE, err |-> PlainError("UnsupportedFragment"),
        selections |-> selections, set |-> set, maxDepth |-> maxDepth]
  ELSE
    With(BuildArguments(selections[i].arguments, 1, variables, Object(<<>>)), LAMBDA a :
      IF ~a.ok
      THEN [ok |-> FALSE, err |-> a.err,
            selections |-> [selections EXCEPT ![i].arguments = a.arguments],
            set |-> set, maxDepth |-> maxDepth]
      ELSE
        With(InternalBuild(selections[i].selectionSet, depth, variables, maxDepth, root,
                           Append(path, i)),
             LAMBDA s :
          With([selections EXCEPT ![i].arguments = a.arguments,
                                  ![i].selectionSet = s.ss],
               LAMBDA rewritten :
            IF ~s.ok
            THEN [ok |-> FALSE, err |-> s.err, selections |-> rewritten, set |-> set,
                  maxDepth |-> s.maxDepth]
            ELSE BuildSelections(rewritten, i + 1, depth, variables, s.maxDepth, root, path,
                   JsSet(set, selections[i].name.value,
                         SelectionNode(NodeRef(root, Append(path, i)),
                                       IF Len(selections[i].arguments) > 0
                                       THEN a.args ELSE UndefinedV,
                                       s.sub))))))

\* new SelectionContext(variables).build(selectionSet)
Build(h, ref, variables) ==
  With(CloneAst(h, ref), LAMBDA c :
    With(InternalBuild(ReadSelectionSet(c.heap, c.ref), 0, variables, 0, c.ref, <<>>),
         LAMBDA r :
      [ok |-> r.ok, err |-> r.err, heap |-> WriteSelectionSet(c.heap, c.ref, r.ss),
       maxDepth |-> r.maxDepth,
       selection |-> SelectionNode(VirtualField(c.ref), UndefinedV, r.sub)]))

\* The field node a reference leads to.
RECURSIVE FieldAt(_, _)
FieldAt(ss, path) ==
  IF Len(path) = 1 THEN ss.selections[path[1]]
  ELSE FieldAt(ss.selections[path[1]].selectionSet, Tail(path))

Deref(h, node) == FieldAt(ReadSelectionSet(h, node.root), node.path)

\* ------------------------------------------------------------ buildContext
\* A parse that asks the cache first and checks the length afterwards.
ParseThenCheck(query, c, used, limit, h) ==
  With(ParseCacheParse(query, c, used, limit, h), LAMBDA p :
    IF TextLen(query) > MaxQueryLength
    THEN [p EXCEPT !.ok = FALSE, !.err = GraphQLQueryError("QueryTooLarge"), !.doc = 0]
    ELSE p)

\* DuckQLServer's parse: the length of the raw text is checked, then the cache
\* is asked.
ServerParse(query, c, used, limit, h) ==
  IF TextLen(query) > MaxQueryLength
  THEN [ok |-> FALSE, err |-> GraphQLQueryError("QueryTooLarge"), doc |-> 0,
        norm |-> <<>>, hit |-> FALSE, parsed |-> FALSE, evicted |-> <<>>,
        cache |-> c, used |-> used, heap |-> h]
  ELSE ParseCacheParse(query, c, used, limit, h)

\* A find that takes the first definition whatever its kind.
FindAnyDefinition(definitions, operationName) ==
  IF definitions # <<>> THEN 1 ELSE 0

\* A find that takes the first operation whatever the name asked for.
FindFirstOperation(definitions, operationName) ==
  IF \E i \in 1..Len(definitions) : definitions[i].kind = "OperationDefinition"
  THEN CHOOSE i \in 1..Len(definitions) :
         /\ definitions[i].kind = "OperationDefinition"
         /\ \A j \in 1..(i - 1) : definitions[j].kind # "OperationDefinition"
  ELSE 0

\* parsed.definitions.find(...): the position of the definition to run, 0 for
\* none.
FindDefinition(definitions, operationName) ==
  LET Matches(def) ==
        IF def.kind # "OperationDefinition" THEN FALSE
        ELSE IF operationName = "" THEN TRUE
        ELSE def.name # Undefined /\ def.name.value = operationName
  IN IF \E i \in 1..Len(definitions) : Matches(definitions[i])
     THEN CHOOSE i \in 1..Len(definitions) :
            Matches(definitions[i]) /\ \A j \in 1..(i - 1) : ~Matches(definitions[j])
     ELSE 0

\* request.variables?.[name]
RequestVariable(request, name) ==
  IF request.variables.t \in {"undefined", "null"} THEN UndefinedV
  ELSE JsGet(request.variables, name)

\* One round of the loop over the variable definitions.
BindVariable(request, variableDefinition, variables) ==
  LET name == variableDefinition.variable.name.value
      given == RequestVariable(request, name)
  IN
  IF given # UndefinedV
  THEN [ok |-> TRUE, variables |-> JsSet(variables, name, given)]
  ELSE IF variableDefinition.defaultValue # Undefined
  THEN LET d == ConvertNodeToVar(variableDefinition.defaultValue, Object(<<>>)) IN
       IF d.ok THEN [ok |-> TRUE, variables |-> JsSet(variables, name, d.value)] ELSE d
  ELSE [ok |-> TRUE, variables |-> variables]

RECURSIVE BindVariables(_, _, _)
BindVariables(request, variableDefinitions, variables) ==
  IF variableDefinitions = <<>> THEN [ok |-> TRUE, variables |-> variables]
  ELSE LET r == BindVariable(request, Head(variableDefinitions), variables) IN
       IF ~r.ok THEN r
       ELSE BindVariables(request, Tail(variableDefinitions), r.variables)

\* A context that reports the name the caller asked for, whatever the
\* definition is called.
RequestedName(defToRun, operationName) == operationName

\* defToRun.name?.value || operationName
ResolvedName(defToRun, operationName) ==
  IF defToRun.name # Undefined /\ defToRun.name.value # ""
  THEN defToRun.name.value ELSE operationName

NoContext == [operation |-> "none"]

Failed(e, p) ==
  [ok |-> FALSE, err |-> e, context |-> NoContext, doc |-> p.doc, parsed |-> p.parsed,
   cache |-> p.cache, used |-> p.used, heap |-> p.heap]

\* buildContext(request, server.parse)
BuildContext(request, c, used, limit, h) ==
  With(ServerParse(request.query, c, used, limit, h), LAMBDA p :
    IF ~p.ok
    THEN Failed(IF p.err.class # "GraphQLQueryError"
                THEN GraphQLQueryError("ParseError") ELSE p.err, p)
    ELSE
      With(IF request.operationName.t \in {"undefined", "null"}
           THEN "" ELSE request.operationName.s,
           LAMBDA given :
        With(FindDefinition(p.heap[p.doc].definitions, given), LAMBDA i :
          IF i = 0 \/ p.heap[p.doc].definitions[IF i = 0 THEN 1 ELSE i].kind
                        # "OperationDefinition"
          THEN Failed(GraphQLQueryError("OperationNotFound"), p)
          ELSE
            With(p.heap[p.doc].definitions[i], LAMBDA defToRun :
              With(BindVariables(request, defToRun.variableDefinitions, Object(<<>>)),
                   LAMBDA v :
                IF ~v.ok THEN Failed(v.err, p)
                ELSE
                  With(Build(p.heap, SetRef(p.doc, i), v.variables), LAMBDA b :
                    IF ~b.ok THEN Failed(b.err, [p EXCEPT !.heap = b.heap])
                    ELSE [ok |-> TRUE, err |-> NoError,
                          context |->
                            [operation |-> defToRun.operation,
                             operationName |-> ResolvedName(defToRun, given),
                             maxDepth |-> b.maxDepth,
                             selection |-> b.selection,
                             node |-> SetRef(p.doc, i)],
                          doc |-> p.doc, parsed |-> p.parsed, cache |-> p.cache,
                          used |-> p.used, heap |-> b.heap]))))))

\* ------------------------------------------------------------- the server
QueryTexts ==
  { <<ChunkSmall>>,
    <<" ", ChunkSmall, ",">>,
    <<ChunkShort>>,
    <<ChunkA, " ", ChunkB>>,
    <<ChunkA, " ", ChunkB, " ", ChunkSmall>>,
    <<ChunkFragDef, ChunkA, ",", ChunkSpread>>,
    <<ChunkFragDef>>,
    <<ChunkSpread>>,
    <<ChunkInline>>,
    <<ChunkUndeclared>>,
    <<ChunkDirective>>,
    <<ChunkProto>>,
    <<ChunkCtor>>,
    <<ChunkSpreadFirst>>,
    <<ChunkSpreadLast>>,
    <<ChunkAlias>>,
    <<ChunkInherited>>,
    <<ChunkBad>> }

\* The texts also asked for by the name of an operation.
NamedTexts ==
  { <<ChunkSmall>>,
    <<ChunkA, " ", ChunkB>>,
    <<ChunkFragDef, ChunkA, ",", ChunkSpread>> }

OperationNames == {String("B")}

VariableSets ==
  { UndefinedV,
    Object(<<>>),
    Object(<<Property("x", Number(5)), Property("u", Number(5))>>),
    Object(<<Property("x", NullV), Property("y", NullV), Property("z", NullV),
             Property("__proto__", NullV)>>),
    Object(<<Property("x", Number(0)), Property("y", Bool(FALSE)),
             Property("z", String(""))>>) }

Requests ==
  [query : QueryTexts, operationName : {String("")}, variables : VariableSets]
  \cup [query : NamedTexts, operationName : OperationNames, variables : VariableSets]

Init ==
  /\ cache = <<>>
  /\ usedQueryLength = 0
  /\ queryLength = ServerBudget
  /\ heap = [a \in Addr |-> Free]
  /\ last = [op |-> "new"]
  /\ http = NoCalls

\* The cells a context refers to.
ContextCells(context) == {context.node.cell, context.selection.node.selectionSet.cell}

\* buildContext(request, server.parse); cloned says that the call made a
\* clone of a selection set, parsed that it invoked the parser.
CallBuildContext(request) ==
  \E r \in {BuildContext(request, cache, usedQueryLength, queryLength, heap)} :
  /\ cache' = r.cache
  /\ usedQueryLength' = r.used
  /\ last' = [op |-> "buildContext", request |-> request, ok |-> r.ok, err |-> r.err,
              context |-> r.context, doc |-> r.doc, parsed |-> r.parsed,
              cloned |-> \E a \in Addr : r.heap[a].kind = "SelectionSet" /\ heap[a] = Free]
  /\ heap' = Collect(r.heap, CacheDocs(r.cache)
                             \cup (IF r.ok THEN ContextCells(r.context) ELSE {}))
  /\ UNCHANGED <<queryLength, http>>

Next == (\E request \in Requests : CallBuildContext(request)) \/ Clear

Spec == Init /\ [][Next]_vars

\* ------------------------------------------------------------------ handle
\* What the resolver does with a context: it returns a response or undefined,
\* throws, or returns a Promise that settles later.
Response == Object(<<Property("data", Number(1))>>)
InternalError == [kind |-> "ResolverError", class |-> "Error"]
Promise(state, value) == [t |-> "promise", state |-> state, value |-> value]

ResolverOutcomes ==
  { [how |-> "return", value |-> Response],
    [how |-> "return", value |-> UndefinedV],
    [how |-> "throw", value |-> UndefinedV],
    [how |-> "promise", value |-> Promise("fulfilled", Response)],
    [how |-> "promise", value |-> Promise("fulfilled", UndefinedV)],
    [how |-> "promise", value |-> Promise("rejected", UndefinedV)] }

\* raw ?? {}
OrEmpty(raw) == IF raw.t \in {"undefined", "null"} THEN Object(<<>>) ELSE raw

\* DuckQLServer.handle(request) with a resolver that does outcome: invoked
\* says that the resolver was called, out is what handle returns.
Handle(request, outcome, c, used, limit, h) ==
  With(BuildContext(request, c, used, limit, h), LAMBDA b :
    IF ~b.ok
    THEN [b EXCEPT !.context = NoContext] @@ [invoked |-> FALSE, out |-> UndefinedV]
    ELSE IF outcome.how = "throw"
    THEN [b EXCEPT !.ok = FALSE, !.err = InternalError]
           @@ [invoked |-> TRUE, out |-> UndefinedV]
    ELSE IF outcome.how = "promise"
    THEN b @@ [invoked |-> TRUE,
               out |-> IF outcome.value.state = "fulfilled"
                       THEN Promise("fulfilled", OrEmpty(outcome.value.value))
                       ELSE outcome.value]
    ELSE b @@ [invoked |-> TRUE, out |-> OrEmpty(outcome.value)])

HandleTexts ==
  { <<ChunkSmall>>,
    <<ChunkShort>>,
    <<ChunkUndeclared>>,
    <<ChunkA, " ", ChunkB>>,
    <<ChunkA, " ", ChunkB, " ", ChunkSmall>>,
    <<ChunkBad>> }

HandleRequests ==
  [query : HandleTexts, operationName : {String("")},
   variables : {Object(<<Property("x", Number(5))>>)}]

\* server.handle(request); the values a Promise settles with are in out.
CallHandle(request, outcome) ==
  \E r \in {Handle(request, outcome, cache, usedQueryLength, queryLength, heap)} :
  /\ cache' = r.cache
  /\ usedQueryLength' = r.used
  /\ last' = [op |-> "handle", request |-> request, outcome |-> outcome,
              ok |-> r.ok, err |-> r.err, context |-> r.context, doc |-> r.doc,
              parsed |-> r.parsed, invoked |-> r.invoked, out |-> r.out]
  /\ heap' = Collect(r.heap, CacheDocs(r.cache)
                             \cup (IF r.context # NoContext
                                   THEN ContextCells(r.context) ELSE {}))
  /\ UNCHANGED <<queryLength, http>>

NextHandle ==
  \/ \E request \in HandleRequests, outcome \in ResolverOutcomes :
       CallHandle(request, outcome)
  \/ Clear

SpecHandle == Init /\ [][NextHandle]_vars

\* ------------------------------------------------- the converter on its own
Scalars ==
  { NullV, Bool(TRUE), Bool(FALSE),
    Number(0), Number(7), Number(-3), Number(MaxInt32),
    Big(214748365, 1), Big(300000000, 1), Big(-300000000, 1),
    Float(1, 5),
    BigInt(7, 0), BigInt(-1234, 0), BigInt(300000000, 1),
    String(""), String("hi"),
    Symbol("RED"), Symbol(""),
    UndefinedV, Function("f") }

RECURSIVE SeqsUpTo(_, _)
SeqsUpTo(S, n) ==
  IF n = 0 THEN {<<>>}
  ELSE LET shorter == SeqsUpTo(S, n - 1) IN
       shorter \cup {Append(q, x) : q \in {r \in shorter : Len(r) = n - 1}, x \in S}

MapKeys == {"k", "__proto__"}

\* Maps of at most MaxItems entries with distinct keys.
Maps(S) ==
  { Object(own) :
      own \in { q \in SeqsUpTo([key : MapKeys, value : S], MaxItems) :
                  \A i, j \in 1..Len(q) : q[i].key = q[j].key => i = j } }

Lists(S) == {Array(items) : items \in SeqsUpTo(S, MaxItems)}

NativeValues ==
  LET flat == Lists(Scalars) \cup Maps(Scalars) IN
  Scalars \cup flat
    \cup {Array(<<x>>) : x \in flat}
    \cup {Object(<<Property("k", x)>>) : x \in flat}

InitValues ==
  /\ cache = <<>>
  /\ usedQueryLength = 0
  /\ queryLength = 0
  /\ heap = [a \in Addr |-> Free]
  /\ last \in [op : {"value"}, value : NativeValues]
  /\ http = NoCalls

\* convertVarToNode(value)
ToLiteral ==
  /\ last.op = "value"
  /\ last' = [op |-> "literal", value |-> last.value, literal |-> ConvertVarToNode(last.value)]
  /\ UNCHANGED <<cache, usedQueryLength, queryLength, heap, http>>

\* convertNodeToVar(literal, {}) of the literal convertVarToNode returned
ToNative ==
  /\ last.op = "literal"
  /\ last.literal.ok
  /\ last' = [op |-> "native", value |-> last.value, literal |-> last.literal,
              back |-> ConvertNodeToVar(last.literal.node, Object(<<>>))]
  /\ UNCHANGED <<cache, usedQueryLength, queryLength, heap, http>>

NextValues == ToLiteral \/ ToNative

SpecValues == InitValues /\ [][NextValues]_vars

\* ----------------------------------------------- ParseCache on raw texts
\* Texts with line breaks, comments and string literals, given to a new
\* ParseCache with room for every one of them.
RECURSIVE TextsOver(_, _)
TextsOver(units, n) ==
  IF n = 0 THEN {<<>>}
  ELSE LET shorter == TextsOver(units, n - 1) IN
       shorter \cup {Append(t, u) : t \in {s \in shorter : Len(s) = n - 1}, u \in units}

RawUnits == {" ", ",", LineBreak, ChunkSmall, ChunkComment, StringOpen, StringClose}

RawTexts == TextsOver(RawUnits, MaxUnits)

InitRaw ==
  /\ cache = <<>>
  /\ usedQueryLength = 0
  /\ queryLength = MaxQueryLength
  /\ heap = [a \in Addr |-> Free]
  /\ last \in [op : {"text"}, text : RawTexts]
  /\ http = NoCalls

\* x.parse(text) of the text drawn
ParseRaw ==
  /\ last.op = "text"
  /\ \E r \in {ParseCacheParse(last.text, cache, usedQueryLength, queryLength, heap)} :
       /\ cache' = r.cache
       /\ usedQueryLength' = r.used
       /\ heap' = Collect(r.heap, CacheDocs(r.cache) \cup (IF r.ok THEN {r.doc} ELSE {}))
       /\ last' = [op |-> "raw", text |-> last.text, norm |-> r.norm, ok |-> r.ok,
                   err |-> r.err, doc |-> r.doc]
  /\ UNCHANGED <<queryLength, http>>

NextRaw == ParseRaw

SpecRaw == InitRaw /\ [][NextRaw]_vars

\* ------------------------------------------------------------- httpHandle
\* Calls of httpHandle run one at a time and each runs until its next await;
\* there another call may run.  The model lets any suspended call go on next,
\* which is no less than the event loop allows.

\* A request of a POST body: typed says that its query is a string.
HttpQuery(text) ==
  [typed |-> TRUE, query |-> text, operationName |-> UndefinedV,
   variables |-> Object(<<Property("x", Number(5))>>)]
NonStringQuery ==
  [typed |-> FALSE, query |-> <<>>, operationName |-> UndefinedV, variables |-> UndefinedV]

\* What JSON.parse makes of a body: valid says that the body is JSON, many that
\* it is an array.
InvalidJson == [valid |-> FALSE, many |-> FALSE, queries |-> <<>>]
JsonBody(many, queries) == [valid |-> TRUE, many |-> many, queries |-> queries]

HttpBodies ==
  { InvalidJson,
    JsonBody(FALSE, <<HttpQuery(<<ChunkSmall>>)>>),
    JsonBody(FALSE, <<HttpQuery(<<ChunkShort>>)>>),
    JsonBody(FALSE, <<HttpQuery(<<ChunkBad>>)>>),
    JsonBody(FALSE, <<NonStringQuery>>),
    JsonBody(TRUE, <<HttpQuery(<<ChunkSmall>>), HttpQuery(<<" ", ChunkShort>>)>>) }

HttpOutcomes ==
  { [how |-> "return", value |-> Response],
    [how |-> "throw", value |-> UndefinedV],
    [how |-> "promise", value |-> Promise("fulfilled", Response)] }

Methods == {"POST", "GET"}

\* !value
Falsy(value) ==
  \/ value.t \in {"undefined", "null"}
  \/ value.t = "string" /\ value.s = ""
  \/ value.t = "boolean" /\ ~value.b
  \/ value.t = "number" /\ value.v = 0 /\ value.frac = 0

\* value || fallback
OrElse(value, fallback) == IF Falsy(value) THEN fallback ELSE value

\* The callback of queries.map on one request of the body
HttpRequest(req) ==
  [query |-> req.query, operationName |-> OrElse(req.operationName, String("")),
   variables |-> OrElse(req.variables, Object(<<>>))]

\* queries.map(...): the requests are handled in order until one throws; the
\* result has what the calls before the throw did to the cache.
RECURSIVE MapQueries(_, _, _, _, _, _)
MapQueries(queries, outcome, c, used, limit, h) ==
  IF queries = <<>>
  THEN [ok |-> TRUE, err |-> NoError, results |-> <<>>, cache |-> c, used |-> used,
        heap |-> h]
  ELSE IF ~Head(queries).typed \/ Head(queries).query = <<>>
  THEN [ok |-> FALSE, err |-> GraphQLQueryError("ExpectedStringQuery"), results |-> <<>>,
        cache |-> c, used |-> used, heap |-> h]
  ELSE
    With(Handle(HttpRequest(Head(queries)), outcome, c, used, limit, h), LAMBDA r :
      IF ~r.ok
      THEN [ok |-> FALSE, err |-> r.err, results |-> <<>>, cache |-> r.cache,
            used |-> r.used, heap |-> Collect(r.heap, CacheDocs(r.cache))]
      ELSE
        With(MapQueries(Tail(queries), outcome, r.cache, r.used, limit,
                        Collect(r.heap, CacheDocs(r.cache))),
             LAMBDA rest : [rest EXCEPT !.results = <<r.out>> \o @]))

\* JSON.stringify of one result: a Promise has no enumerable property
JsonOf(value) ==
  IF value.t = "promise" \/ value = Object(<<>>) THEN "{}" ELSE "{data:1}"

\* JSON.stringify(manyRequests ? results : results[0]), element by element
Stringify(many, results) ==
  IF many THEN [i \in 1..Len(results) |-> JsonOf(results[i])]
  ELSE <<JsonOf(results[1])>>

\* What a step of a call has sent: err is what the step caught, ended says
\* that res.end() was called.
Sent(step, status, written, ended, evicted, err) ==
  [op |-> "http", step |-> step, status |-> status, written |-> written,
   ended |-> ended, evicted |-> evicted, err |-> err]

\* What the await of the body throws when req emits 'error'
RequestError == [kind |-> "RequestError", class |-> "Error"]

\* httpHandle(req, res) up to its first await
Accept(c, method) ==
  /\ http[c].pc = "idle"
  /\ IF method # "POST"
     THEN /\ last' = Sent("accept", 405, <<>>, TRUE, FALSE, NoError)
          /\ UNCHANGED http
     ELSE /\ last' = Sent("accept", 0, <<>>, FALSE, FALSE, NoError)
          /\ http' = [http EXCEPT ![c] = Call("reading", FALSE, <<>>)]
  /\ UNCHANGED <<cache, usedQueryLength, queryLength, heap>>

\* req emits 'error': the await of the body throws
BodyError(c) ==
  /\ http[c].pc = "reading"
  /\ last' = Sent("error", 500, <<>>, TRUE, FALSE, RequestError)
  /\ http' = [http EXCEPT ![c] = Idle]
  /\ UNCHANGED <<cache, usedQueryLength, queryLength, heap>>

\* req emits 'end': httpHandle goes on from the body to await resultPromises
BodyEnd(c, body, outcome) ==
  /\ http[c].pc = "reading"
  /\ IF ~body.valid
     THEN /\ last' = Sent("body", 400, <<"Invalid JSON">>, TRUE, FALSE, NoError)
          /\ http' = [http EXCEPT ![c] = Idle]
          /\ UNCHANGED <<cache, usedQueryLength, heap>>
     ELSE \E r \in {MapQueries(body.queries, outcome, cache, usedQueryLength,
                                queryLength, heap)} :
          /\ cache' = r.cache
          /\ usedQueryLength' = r.used
          /\ heap' = r.heap
          /\ last' = Sent("body", IF r.ok THEN 0 ELSE 500, <<>>, ~r.ok,
                          \E i \in 1..Len(cache) : CacheIndex(r.cache, cache[i].key) = 0,
                          r.err)
          /\ http' = [http EXCEPT ![c] =
                        IF r.ok THEN Call("awaiting", body.many, r.results) ELSE Idle]
  /\ UNCHANGED queryLength

\* httpHandle goes on from await resultPromises, which is the array itself
Resume(c) ==
  /\ http[c].pc = "awaiting"
  /\ last' = Sent("resume", 200, Stringify(http[c].many, http[c].results), TRUE, FALSE,
                NoError)
  /\ http' = [http EXCEPT ![c] = Idle]
  /\ UNCHANGED <<cache, usedQueryLength, queryLength, heap>>

NextHttp ==
  \E c \in Conns :
    \/ \E method \in Methods : Accept(c, method)
    \/ BodyError(c)
    \/ \E body \in HttpBodies, outcome \in HttpOutcomes : BodyEnd(c, body, outcome)
    \/ Resume(c)

SpecHttp == Init /\ [][NextHttp]_vars

\* ------------------------------------------------------ claims on the cache
CacheKeys(c) == [i \in 1..Len(c) |-> c[i].key]

RECURSIVE KeysLength(_)
KeysLength(keys) == IF keys = <<>> THEN 0 ELSE TextLen(Head(keys)) + KeysLength(Tail(keys))

\* C1: after every parse call the running total of the lengths of the cached
\* normalized texts, as the cache counts it and as the entries add up, is at
\* most the budget.
C1_TotalWithinBudget ==
  /\ usedQueryLength <= queryLength
  /\ KeysLength(CacheKeys(cache)) <= queryLength

\* A miss has just evicted more than one entry.
C1_Witness ==
  /\ last.op = "parse" /\ last.ok /\ last.parsed
  /\ Len(last.evicted) >= 2

\* The number of keys that must go, oldest first, before the rest fits.
MustEvict(order, limit) ==
  CHOOSE k \in 0..Len(order) :
    /\ KeysLength(SubSeq(order, k + 1, Len(order))) <= limit
    /\ \A j \in 0..(k - 1) : KeysLength(SubSeq(order, j + 1, Len(order))) > limit

\* A step that is a parse miss taking the total over the budget.
MissOverBudget ==
  /\ last'.op = "parse" /\ last'.ok /\ last'.parsed
  /\ usedQueryLength + TextLen(last'.norm) > queryLength

\* The entries evicted by the step are the oldest, in insertion order, and
\* exactly as many as needed.
EvictedOldestFirst ==
  LET order == Append(CacheKeys(cache), last'.norm)
      k == MustEvict(order, queryLength)
  IN /\ last'.evicted = SubSeq(order, 1, k)
     /\ CacheKeys(cache') = SubSeq(order, k + 1, Len(order))

\* C2 as stated: a miss that takes the total over the budget evicts exactly
\* the oldest entries, in insertion order, until the total fits, and never
\* the entry it has just inserted.
C2_Original ==
  [][MissOverBudget =>
       /\ EvictedOldestFirst
       /\ \A i \in 1..Len(last'.evicted) : last'.evicted[i] # last'.norm]_vars

\* C2 amended: the oldest entries go first, in insertion order, until the
\* total fits; the entry just inserted is evicted exactly when its own
\* normalized text is longer than the budget, and then the cache is empty.
C2_FifoEviction ==
  [][MissOverBudget =>
       /\ EvictedOldestFirst
       /\ (\E i \in 1..Len(last'.evicted) : last'.evicted[i] = last'.norm)
            <=> TextLen(last'.norm) > queryLength
       /\ TextLen(last'.norm) > queryLength => cache' = <<>>]_vars

\* A miss evicted two older entries and kept the one it inserted.
C2_Witness ==
  /\ last.op = "parse" /\ last.ok /\ last.parsed
  /\ Len(last.evicted) >= 2
  /\ \A i \in 1..Len(last.evicted) : last.evicted[i] # last.norm
  /\ cache # <<>> /\ cache[Len(cache)].key = last.norm

C17_FailureNotCached ==
  [][(last'.op = "parse" /\ ~GraphqlParse(last'.norm).ok) =>
       /\ ~last'.ok
       /\ last'.err = GraphqlParse(last'.norm).err
       /\ last'.parsed /\ ~last'.hit
       /\ cache' = cache
       /\ usedQueryLength' = usedQueryLength
       /\ CacheIndex(cache', last'.norm) = 0]_vars

\* The parser threw on the same non-empty text twice in a row while the cache
\* held an entry.
C17_Witness ==
  /\ last.op = "parse" /\ last.retry
  /\ ~last.ok /\ last.err.kind = "SyntaxError" /\ last.parsed
  /\ last.norm # <<>>
  /\ cache # <<>>

\* ---------------------------------------------------- claims on buildContext
\* The Document graphql reads from the request's text, when there is one.
Readable(request) ==
  /\ TextLen(request.query) <= MaxQueryLength
  /\ GraphqlParse(NormalizeQuery(request.query)).ok

DocumentOf(request) == GraphqlParse(NormalizeQuery(request.query)).node

NameGiven(request) ==
  IF request.operationName.t = "string" THEN request.operationName.s ELSE ""

\* The definition the request asks for: the first operation when no name is
\* given, the first operation of that name otherwise; 0 when there is none.
Asked(request) ==
  LET defs == DocumentOf(request).definitions
      fits == {i \in 1..Len(defs) :
                 /\ defs[i].kind = "OperationDefinition"
                 /\ \/ NameGiven(request) = ""
                    \/ defs[i].name # Undefined /\ defs[i].name.value = NameGiven(request)}
  IN IF fits = {} THEN 0 ELSE CHOOSE i \in fits : \A j \in fits : i <= j

Built == last.op = "buildContext" /\ last.ok

\* Every SelectionNode of a tree, the root included.
RECURSIVE Descendants(_)
Descendants(sel) ==
  {sel} \cup
    (IF sel.sub = UndefinedV THEN {}
     ELSE UNION {Descendants(sel.sub.own[i].value) : i \in 1..Len(sel.sub.own)})

\* The cell the clone of the context lives in.
CloneCell(context) == context.selection.node.selectionSet.cell

\* C4: after every buildContext call, failed or not, each Document the cache
\* holds is as the parser made it; the operation node of a returned context is
\* as the parser made it too, and every syntax node of the returned selection
\* tree lives in a cell that is neither a cached Document nor the Document of
\* context.node.
C4_CachedDocumentUnchanged ==
  /\ \A i \in 1..Len(cache) : heap[cache[i].doc] = GraphqlParse(cache[i].key).node
  /\ Built =>
       /\ heap[last.context.node.cell] = DocumentOf(last.request)
       /\ CloneCell(last.context) \notin CacheDocs(cache) \cup {last.context.node.cell}
       /\ \A n \in Descendants(last.context.selection) \ {last.context.selection} :
            n.node.root.cell = CloneCell(last.context)

\* A context was built from a cached Document and its clone was rewritten.
C4_Witness ==
  /\ Built
  /\ last.doc \in CacheDocs(cache)
  /\ heap[CloneCell(last.context)] #
       ReadSelectionSet(heap, last.context.node)
  /\ \E i \in 1..Len(heap[CloneCell(last.context)].selections) :
       Len(heap[CloneCell(last.context)].selections[i].arguments) > 0

\* Whether a value node holds a variable reference at any depth.
RECURSIVE ValueHasVariable(_)
ValueHasVariable(v) ==
  CASE v.kind = "Variable" -> TRUE
    [] v.kind = "ListValue" -> \E i \in 1..Len(v.values) : ValueHasVariable(v.values[i])
    [] v.kind = "ObjectValue" ->
         \E i \in 1..Len(v.fields) : ValueHasVariable(v.fields[i].value)
    [] OTHER -> FALSE

ArgumentsHaveVariable(arguments) ==
  \E i \in 1..Len(arguments) : ValueHasVariable(arguments[i].value)

DirectivesHaveVariable(directives) ==
  \E i \in 1..Len(directives) : ArgumentsHaveVariable(directives[i].arguments)

\* Whether a variable reference is left anywhere inside a selection.
RECURSIVE SelectionHasVariable(_)
SelectionHasVariable(sel) ==
  \/ DirectivesHaveVariable(sel.directives)
  \/ sel.kind = "Field" /\ ArgumentsHaveVariable(sel.arguments)
  \/ /\ sel.kind \in {"Field", "InlineFragment"}
     /\ sel.selectionSet # Undefined
     /\ \E i \in 1..Len(sel.selectionSet.selections) :
          SelectionHasVariable(sel.selectionSet.selections[i])

\* C5: after buildContext succeeds, no backing syntax node of the returned
\* tree holds a variable reference at any place, and every argument literal
\* of a backing node is the literal of the value the node's args has under the
\* argument's name.
C5_OnlyLiterals ==
  Built =>
    /\ \A i \in 1..Len(heap[CloneCell(last.context)].selections) :
         ~SelectionHasVariable(heap[CloneCell(last.context)].selections[i])
    /\ \A n \in Descendants(last.context.selection) \ {last.context.selection} :
         LET field == Deref(heap, n.node) IN
         /\ ~SelectionHasVariable(field)
         /\ \A i \in 1..Len(field.arguments) :
              /\ n.args # UndefinedV
              /\ ConvertVarToNode(JsGet(n.args, field.arguments[i].name.value)) =
                   [ok |-> TRUE, node |-> field.arguments[i].value]

\* The names of the variables the field arguments of a selection set refer to,
\* at any depth.
RECURSIVE ValueVariables(_)
ValueVariables(v) ==
  CASE v.kind = "Variable" -> {v.name.value}
    [] v.kind = "ListValue" -> UNION {ValueVariables(v.values[i]) : i \in 1..Len(v.values)}
    [] v.kind = "ObjectValue" ->
         UNION {ValueVariables(v.fields[i].value) : i \in 1..Len(v.fields)}
    [] OTHER -> {}

RECURSIVE ArgumentVariables(_)
ArgumentVariables(ss) ==
  IF ss = Undefined THEN {}
  ELSE UNION {
    LET sel == ss.selections[i] IN
    (IF sel.kind = "Field"
     THEN UNION {ValueVariables(sel.arguments[j].value) : j \in 1..Len(sel.arguments)}
     ELSE {})
    \cup (IF sel.kind \in {"Field", "InlineFragment"}
          THEN ArgumentVariables(sel.selectionSet) ELSE {})
    : i \in 1..Len(ss.selections)}

\* The caller supplied a binding of the name: the request's variables have it
\* as a key.
Supplied(request, name) ==
  /\ request.variables.t = "object"
  /\ OwnIndex(request.variables, name) # 0

SuppliedValue(request, name) ==
  request.variables.own[OwnIndex(request.variables, name)].value

\* The declared default of the name in an operation, Undefined for none.
DeclaredDefault(def, name) ==
  IF \E i \in 1..Len(def.variableDefinitions) :
       def.variableDefinitions[i].variable.name.value = name
  THEN (def.variableDefinitions[
          CHOOSE i \in 1..Len(def.variableDefinitions) :
            def.variableDefinitions[i].variable.name.value = name]).defaultValue
  ELSE Undefined

Declared(def, name) ==
  \E i \in 1..Len(def.variableDefinitions) :
    def.variableDefinitions[i].variable.name.value = name

\* The operation a buildContext call was asked to run, when there is one.
AskedOperation == DocumentOf(last.request).definitions[Asked(last.request)]

HasAsked ==
  /\ last.op = "buildContext"
  /\ Readable(last.request)
  /\ Asked(last.request) # 0

\* C6: when a field argument of the executed operation refers to a variable
\* that has no supplied binding and no declared default, buildContext fails
\* with UnresolvedVariable, a GraphQLQueryError, and returns no context.
C6_UnresolvedVariableFails ==
  (/\ HasAsked
   /\ \E name \in ArgumentVariables(AskedOperation.selectionSet) :
        /\ ~Supplied(last.request, name)
        /\ DeclaredDefault(AskedOperation, name) = Undefined)
  => /\ ~last.ok
     /\ last.err = GraphQLQueryError("UnresolvedVariable")

\* The fields of the executed operation's first level whose arguments are
\* references to declared variables that have a binding or a default.
DirectlyBound(request, def) ==
  /\ \A i \in 1..Len(def.selectionSet.selections) :
       LET sel == def.selectionSet.selections[i] IN
       /\ sel.kind = "Field"
       /\ sel.selectionSet = Undefined
       /\ Len(sel.arguments) > 0
       /\ \A j \in 1..Len(sel.arguments) :
            /\ sel.arguments[j].value.kind = "Variable"
            /\ Declared(def, sel.arguments[j].value.name.value)
            /\ \/ Supplied(request, sel.arguments[j].value.name.value)
               \/ DeclaredDefault(def, sel.arguments[j].value.name.value) # Undefined

\* The value the claim gives a declared variable: the supplied binding, else
\* the native value of the default.
Expected(request, def, name) ==
  IF Supplied(request, name) THEN SuppliedValue(request, name)
  ELSE ConvertNodeToVar(DeclaredDefault(def, name), Object(<<>>)).value

\* The args of the top-level field at position i of a built context.
ArgsOf(context, i) ==
  LET node == CHOOSE n \in Descendants(context.selection) \ {context.selection} :
                n.node.path = <<i>>
  IN node.args

ResolvesTo(request, def, wanted(_)) ==
  \A i \in 1..Len(def.selectionSet.selections) :
    LET sel == def.selectionSet.selections[i] IN
    \A j \in 1..Len(sel.arguments) :
      wanted(sel.arguments[j].value.name.value) =>
        /\ last.ok
        /\ \E n \in Descendants(last.context.selection) \ {last.context.selection} :
             n.node.path = <<i>>
        /\ ArgsOf(last.context, i) # UndefinedV
        /\ JsGet(ArgsOf(last.context, i), sel.arguments[j].name.value) =
             Expected(request, def, sel.arguments[j].value.name.value)

\* C7: an argument that refers to a declared variable resolves to the supplied
\* binding when one is supplied and to the native value of the declared
\* default otherwise.
C7_BindingThenDefault ==
  (HasAsked /\ DirectlyBound(last.request, AskedOperation))
  => ResolvesTo(last.request, AskedOperation, LAMBDA name : TRUE)

\* C8: a supplied binding that is null, false, 0 or the empty string is used,
\* not the default, and an argument that refers to a variable bound to null
\* resolves to null without an UnresolvedVariable.
C8_PresenceNotTruthiness ==
  (HasAsked /\ DirectlyBound(last.request, AskedOperation))
  => ResolvesTo(last.request, AskedOperation,
                LAMBDA name :
                  /\ Supplied(last.request, name)
                  /\ SuppliedValue(last.request, name)
                       \in {NullV, Bool(FALSE), Number(0), String("")})

\* Whether a selection set holds a fragment spread or an inline fragment at
\* any depth.
RECURSIVE HasFragment(_)
HasFragment(ss) ==
  /\ ss # Undefined
  /\ \E i \in 1..Len(ss.selections) :
       \/ ss.selections[i].kind # "Field"
       \/ HasFragment(ss.selections[i].selectionSet)

DocumentHasFragment(doc) ==
  \E i \in 1..Len(doc.definitions) : HasFragment(doc.definitions[i].selectionSet)

C10_OperationSelection ==
  (last.op = "buildContext" /\ Readable(last.request)) =>
    /\ Built =>
         /\ Asked(last.request) # 0
         /\ last.context.node = SetRef(last.doc, Asked(last.request))
         /\ last.context.operation = AskedOperation.operation
         /\ heap[CloneCell(last.context)].kind = "SelectionSet"
         /\ Len(heap[CloneCell(last.context)].selections) =
              Len(AskedOperation.selectionSet.selections)
    /\ (Asked(last.request) = 0) <=> (last.err = GraphQLQueryError("OperationNotFound"))

\* The second operation of a Document was run by its name.
C10_Witness ==
  /\ Built
  /\ NameGiven(last.request) = "B"
  /\ last.context.node.def = 2
  /\ last.context.operation = "mutation"

\* C18: the operationName of a returned context is the name of the definition
\* that was run when that definition has one, and the name asked for when it
\* has none, the empty string when no name was asked for; so a call that was
\* given a name that is not empty and succeeds returns that very name.
C18_ResolvedOperationName ==
  Built =>
    /\ AskedOperation.name # Undefined =>
          last.context.operationName = AskedOperation.name.value
    /\ AskedOperation.name = Undefined =>
          last.context.operationName = NameGiven(last.request)
    /\ NameGiven(last.request) # "" =>
          last.context.operationName = NameGiven(last.request)

\* A named operation was run without being asked for by name, and its context
\* carries the definition's name.
C18_Witness ==
  /\ Built
  /\ NameGiven(last.request) = ""
  /\ AskedOperation.name # Undefined
  /\ last.context.operationName = "A"

\* The failures a request can cause.
RequestFaults ==
  {"QueryTooLarge", "ParseError", "OperationNotFound", "UnsupportedFragment",
   "UnresolvedVariable"}

\* C19: every failure of buildContext that the request caused (QueryTooLarge,
\* ParseError, OperationNotFound, UnsupportedFragment, UnresolvedVariable) is
\* thrown as a GraphQLQueryError.
C19_RequestFaultsAreQueryErrors ==
  (last.op = "buildContext" /\ ~last.ok /\ last.err.kind \in RequestFaults) =>
     last.err.class = "GraphQLQueryError"

\* C11: buildContext on a readable text fails with OperationNotFound, a
\* GraphQLQueryError, exactly when the Document has no operation definition
\* of the name asked for (none at all when no name is asked for), and a call
\* that fails so has made no clone and returns no selection tree.
C11_OperationNotFound ==
  (last.op = "buildContext" /\ Readable(last.request)) =>
    LET defs == DocumentOf(last.request).definitions
        none == \A i \in 1..Len(defs) :
                  \/ defs[i].kind # "OperationDefinition"
                  \/ /\ NameGiven(last.request) # ""
                     /\ (defs[i].name = Undefined
                         \/ defs[i].name.value # NameGiven(last.request))
    IN /\ none <=> (~last.ok /\ last.err = GraphQLQueryError("OperationNotFound"))
       /\ none => (~last.cloned /\ last.context = NoContext)

\* A name that no operation of the Document has was asked for.
C11_Witness ==
  /\ last.op = "buildContext"
  /\ NameGiven(last.request) = "B"
  /\ \E i \in 1..Len(DocumentOf(last.request).definitions) :
       DocumentOf(last.request).definitions[i].kind = "OperationDefinition"
  /\ last.err = GraphQLQueryError("OperationNotFound")
  /\ ~last.cloned

\* The deepest nesting of selection sets below a node: 0 for a node without a
\* selection set, one more than the deepest of its fields otherwise.
RECURSIVE Nesting(_)
Nesting(ss) ==
  IF ss = Undefined THEN 0
  ELSE LET below == {Nesting(ss.selections[i].selectionSet) : i \in 1..Len(ss.selections)}
       IN 1 + (CHOOSE d \in below : \A e \in below : e <= d)

\* C12: the maxDepth of every built context is the deepest nesting of
\* selection sets below the root of the executed operation, the root's own
\* fields being at depth 1, whatever the order of sibling fields.
C12_MaxDepth ==
  Built => last.context.maxDepth = Nesting(AskedOperation.selectionSet)

\* A context of depth 3 whose deepest field is not the last sibling.
C12_Witness ==
  /\ Built
  /\ last.context.maxDepth = 3
  /\ LET sels == AskedOperation.selectionSet.selections IN
     /\ Nesting(sels[1].selectionSet) = 2
     /\ Nesting(sels[Len(sels)].selectionSet) = 1

\* ------------------------------------------------- claims on the converter
\* The native values the converter is specified for: null, booleans, integers,
\* bigints, strings, described symbols, and lists and plain maps of these.
RECURSIVE Supported(_)
Supported(v) ==
  CASE v.t \in {"null", "boolean", "bigint", "string"} -> TRUE
    [] v.t = "number" -> v.frac = 0
    [] v.t = "symbol" -> v.description # ""
    [] v.t = "array" -> \A i \in 1..Len(v.items) : Supported(v.items[i])
    [] v.t = "object" ->
         /\ ~v.builtins /\ v.proto = ObjectPrototype
         /\ \A i \in 1..Len(v.own) : Supported(v.own[i].value)
    [] OTHER -> FALSE

\* C13: for every supported native value v, convertNodeToVar of
\* convertVarToNode(v) with no variables is v again, symbols being compared by
\* their description.
C13_RoundTrip ==
  (last.op \in {"literal", "native"} /\ Supported(last.value)) =>
    /\ last.literal.ok
    /\ last.op = "native" => (last.back.ok /\ last.back.value = last.value)

\* C14: convertVarToNode gives an Int literal for every integral number,
\* whatever its size, and for every bigint, and a Float literal for every
\* number that is not integral.
C14_IntOrFloat ==
  (last.op \in {"literal", "native"} /\ last.value.t \in {"number", "bigint"}) =>
    /\ last.literal.ok
    /\ last.literal.node.kind =
         IF last.value.t = "number" /\ last.value.frac # 0
         THEN "FloatValue" ELSE "IntValue"

\* ---------------------------------------------------------- claims on handle
\* C15: handle refuses a text longer than maxQueryLength with QueryTooLarge, a
\* GraphQLQueryError, without asking the parser: the cache's entries and total
\* stay as they were and the resolver is not called; a text of at most
\* maxQueryLength characters is never refused with QueryTooLarge.
C15_TooLargeRefused ==
  [][last'.op = "handle" =>
       IF TextLen(last'.request.query) > MaxQueryLength
       THEN /\ ~last'.ok
            /\ last'.err = GraphQLQueryError("QueryTooLarge")
            /\ ~last'.parsed
            /\ ~last'.invoked
            /\ cache' = cache
            /\ usedQueryLength' = usedQueryLength
       ELSE last'.err.kind # "QueryTooLarge"]_vars

\* A text too long was refused while the cache held an entry.
C15_Witness ==
  /\ last.op = "handle"
  /\ TextLen(last.request.query) > MaxQueryLength
  /\ CacheIndex(cache, NormalizeQuery(last.request.query)) = 0
  /\ cache # <<>>
  /\ last.err = GraphQLQueryError("QueryTooLarge")

\* The key the claim gives a field: its alias when it has one, else its name.
KeyOf(field) == IF field.alias # Undefined THEN field.alias.value ELSE field.name.value

\* Whether a built SelectionSet has one node per field of a selection set,
\* under the field's key and in the order of the fields, at every depth.
RECURSIVE Mirrors(_, _)
Mirrors(sub, ss) ==
  IF ss = Undefined THEN sub = UndefinedV
  ELSE /\ sub # UndefinedV
       /\ sub.proto = ObjectPrototype
       /\ Len(sub.own) = Len(ss.selections)
       /\ \A i \in 1..Len(ss.selections) :
            /\ sub.own[i].key = KeyOf(ss.selections[i])
            /\ sub.own[i].value.node.path # <<>>
            /\ sub.own[i].value.node.path[Len(sub.own[i].value.node.path)] = i
            /\ Mirrors(sub.own[i].value.sub, ss.selections[i].selectionSet)

\* C16: for every selection set of the executed operation the built
\* SelectionSet has one SelectionNode per field, under the field's alias when
\* it has one and under its name otherwise, and its keys are in the order of
\* the fields; no field is lost and none is merged with another.
C16_OneNodePerField ==
  Built => Mirrors(last.context.selection.sub, AskedOperation.selectionSet)

\* ------------------------------------------------------ claims on httpHandle
\* C20: wherever calls of httpHandle that share one ParseCache can take
\* turns, the cache is whole: no key is held twice, every entry has its
\* Document, the total is the sum of the lengths of the keys held and is at
\* most the budget, so no call sees an eviction that has begun and not ended.
C20_WholeCacheBetweenTurns ==
  /\ \A i, j \in 1..Len(cache) : cache[i].key = cache[j].key => i = j
  /\ \A i \in 1..Len(cache) : heap[cache[i].doc].kind = "Document"
  /\ usedQueryLength = KeysLength(CacheKeys(cache))
  /\ usedQueryLength <= queryLength

\* One call has just evicted an entry another call had inserted, and both
\* are suspended, one at its body and one at its results.
C20_Witness ==
  /\ last.op = "http" /\ last.step = "body" /\ last.evicted
  /\ \E c, d \in Conns : http[c].pc = "awaiting" /\ http[d].pc = "reading"

\* What a result of handle settles to: the value of a Promise, else itself.
Settled(value) == IF value.t = "promise" THEN value.value ELSE value

\* The body the claim expects for the results of a call.
AwaitedJson(many, results) ==
  IF many THEN [i \in 1..Len(results) |-> JsonOf(Settled(results[i]))]
  ELSE <<JsonOf(Settled(results[1]))>>

\* C21: the body httpHandle writes for a POST is the JSON of what every
\* result of handle settles to, in the order of the requests: for a resolver
\* that returns a Promise, the value the Promise is fulfilled with.
C21_AwaitedOutcomeSent ==
  [][\A c \in Conns :
       (http[c].pc = "awaiting" /\ http'[c].pc = "idle") =>
          /\ last'.status = 200
          /\ last'.ended
          /\ last'.written = AwaitedJson(http[c].many, http[c].results)]_vars

\* C22: when a call of httpHandle catches an error, it answers 400 with the
\* error's message when the error is a GraphQLQueryError and 500 when it is
\* any other error, and it has ended the response.
C22_QueryErrorsAnswer400 ==
  (last.op = "http" /\ last.err # NoError) =>
    /\ last.ended
    /\ IF last.err.class = "GraphQLQueryError"
       THEN last.status = 400 /\ last.written = <<last.err.kind>>
       ELSE last.status = 500

\* ------------------------------------------------- claims on transparency
\* A selection tree without the addresses of its cells: the arguments, the
\* place of the syntax node and the keys of every node, in order.
RECURSIVE Outline(_)
Outline(sel) ==
  [args |-> sel.args,
   path |-> IF "path" \in DOMAIN sel.node THEN sel.node.path ELSE <<>>,
   plain |-> sel.sub = UndefinedV \/ sel.sub.proto = ObjectPrototype,
   sub |-> IF sel.sub = UndefinedV THEN <<>>
           ELSE [i \in 1..Len(sel.sub.own) |->
                   [key |-> sel.sub.own[i].key, value |-> Outline(sel.sub.own[i].value)]]]

\* What a caller can see of a context whose cells are in h.
Shown(context, h) ==
  [operation |-> context.operation,
   operationName |-> context.operationName,
   maxDepth |-> context.maxDepth,
   definition |-> context.node.def,
   document |-> h[context.node.cell],
   syntax |-> h[CloneCell(context)],
   selection |-> Outline(context.selection)]

\* The same request against a server whose cache is new.
Fresh(request) == BuildContext(request, <<>>, 0, queryLength, [a \in Addr |-> Free])

\* C23: whatever the calls before have left in the cache, a buildContext call
\* ends as the same request ends against a new cache: with the same error,
\* or with the same operation, operationName, maxDepth, selection tree,
\* arguments and syntax nodes; so no call sees the values an earlier call
\* put in place of the variables.
C23_CacheTransparent ==
  last.op = "buildContext" =>
    With(Fresh(last.request), LAMBDA fresh :
      /\ last.ok = fresh.ok
      /\ last.err = fresh.err
      /\ last.ok => Shown(last.context, heap) = Shown(fresh.context, fresh.heap))

\* A call was served from the cache and built arguments from its own
\* bindings, not from the defaults of the operation.
C23_Witness ==
  /\ Built /\ ~last.parsed
  /\ last.request.query = <<ChunkShort>>
  /\ \E n \in Descendants(last.context.selection) :
       /\ n.args # UndefinedV
       /\ JsGet(n.args, "n") = Number(5)

\* C24: after every parse, thrown or not, and every clear, the total the cache
\* counts is the sum of the lengths of the keys it holds; so count is 0
\* exactly when the total is 0, and use is the quotient of that sum and the
\* budget.
C24_TotalIsSumOfKeys ==
  /\ usedQueryLength = KeysLength(CacheKeys(cache))
  /\ (Count(cache) = 0) <=> (usedQueryLength = 0)
  /\ Use(usedQueryLength, queryLength) =
       [num |-> KeysLength(CacheKeys(cache)), den |-> queryLength]

\* A parse has evicted an entry and kept another: count and total are both
\* above 0 and the total is the length of what is left.
C24_Witness ==
  /\ last.op = "parse" /\ last.ok
  /\ Len(last.evicted) >= 1
  /\ Count(cache) >= 1 /\ usedQueryLength > 0
  /\ usedQueryLength = KeysLength(CacheKeys(cache))

\* C25: ParseCache.parse returns a Document for a text exactly when graphql's
\* parse returns one for the text as it was given, and the two Documents are
\* equal node for node; also when a run of whitespace or commas is inside a
\* string literal and when a line break ends a comment.
C25_NormalizationInsignificant ==
  last.op = "raw" =>
    /\ last.ok <=> GraphqlParse(last.text).ok
    /\ last.ok => heap[last.doc] = GraphqlParse(last.text).node

\* ------------------------------------------- claims on undeclared variables
\* C26: only the variables the executed operation declares are bound: when an
\* argument of an operation without fragments refers to a variable the
\* operation does not declare, buildContext fails with UnresolvedVariable,
\* whether or not the request supplies a binding of that name.
C26_UndeclaredNeverVisible ==
  (/\ HasAsked
   /\ ~HasFragment(AskedOperation.selectionSet)
   /\ \E name \in ArgumentVariables(AskedOperation.selectionSet) :
        ~Declared(AskedOperation, name))
  => /\ ~last.ok
     /\ last.err = GraphQLQueryError("UnresolvedVariable")

====
